---- MODULE Spec2Model ----
(***************************************************************************)
(* Model of the VS Code extension "Fix Chinese Characters"                 *)
(* (src/src/extension.ts): the batch rewrite applyRules, the two manual    *)
(* commands, and the real-time listener that corrects a typed character    *)
(* through a guarded, deferred editor edit.                                *)
(*                                                                         *)
(* A document is one line of text, a sequence of characters; a position is *)
(* the 0-based character offset in that line.  Strings of the program are  *)
(* sequences of characters, so that lengths, split/join and ranges are     *)
(* computed and not assumed.                                               *)
(***************************************************************************)
EXTENDS Integers, Sequences, FiniteSets, TLC

(***************************************************************************)
(* Characters.  Full-width characters are named by their code point.       *)
(***************************************************************************)
CnComma  == "U+FF0C"
CnPeriod == "U+3002"
Comma    == ","
Period   == "."

Hello == <<"h", "e", "l", "l", "o">>
Abc   == <<"a", "b", "c">>

(***************************************************************************)
(* Bounds of the model.                                                    *)
(***************************************************************************)
MaxLen           == 6   \* longest document text
MaxSteps         == 3   \* steps of the user and of other programs: change
                        \*   events, focus changes, configuration edits,
                        \*   command invocations
MaxText          == 4   \* longest text given to the batch rewrite
MaxRewrites      == 2   \* calls of the batch rewrite in a row

Docs     == {"A", "B"}
NoEditor == "none"      \* vscode.window.activeTextEditor === undefined

TypedChars == {CnComma, CnPeriod, "a"}
InitTexts  == {Abc, Hello}

(***************************************************************************)
(* Rule tables the configuration can hold: Map<string,string> in insertion *)
(* order, each entry a pair of strings.                                    *)
(***************************************************************************)
Rule(k, v) == [key |-> k, val |-> v]

DefaultRules == << Rule(<<CnComma>>, <<Comma>>), Rule(<<CnPeriod>>, <<Period>>) >>
ChainRules   == << Rule(<<CnComma>>, <<CnPeriod>>), Rule(<<CnPeriod>>, <<Period>>) >>
EraseRules   == << Rule(<<CnComma>>, << >>) >>
PairRules    == << Rule(<<CnComma, CnPeriod>>, <<Comma, Period>>) >>

RuleTables == {DefaultRules, ChainRules, EraseRules, PairRules}

----------------------------------------------------------------------------
(***************************************************************************)
(* Strings.                                                                *)
(***************************************************************************)
Min(a, b) == IF a < b THEN a ELSE b

\* s.substring(from, to), 0-based, to exclusive
Sub(s, from, to) == SubSeq(s, from + 1, to)

\* s.charAt(i), 0-based; "" when out of range
CharAt(s, i) == IF i >= 0 /\ i < Len(s) THEN <<s[i + 1]>> ELSE << >>

\* s.startsWith(k, i)
StartsAt(s, k, i) == i + Len(k) <= Len(s) /\ Sub(s, i, i + Len(k)) = k

\* s.split(k).join(v) for a non-empty k: every non-overlapping occurrence of
\* k, scanning left to right, is replaced by v
RECURSIVE SplitJoinFrom(_, _, _, _)
SplitJoinFrom(s, k, v, i) ==
    IF i >= Len(s) THEN << >>
    ELSE IF StartsAt(s, k, i) THEN v \o SplitJoinFrom(s, k, v, i + Len(k))
    ELSE <<s[i + 1]>> \o SplitJoinFrom(s, k, v, i + 1)

\* s.split("").join(v): v between every two characters
RECURSIVE Interleave(_, _, _)
Interleave(s, v, i) ==
    IF i >= Len(s) THEN << >>
    ELSE IF i = Len(s) - 1 THEN <<s[i + 1]>>
    ELSE <<s[i + 1]>> \o v \o Interleave(s, v, i + 1)

\* s.replace(k, v): the first occurrence only
SplitJoinFirst(s, k, v) ==
    LET M == {i \in 0..(Len(s) - 1) : k # << >> /\ StartsAt(s, k, i)}
    IN  IF M = {} THEN s
        ELSE LET i == CHOOSE x \in M : \A y \in M : x <= y
             IN  Sub(s, 0, i) \o v \o Sub(s, i + Len(k), Len(s))

SplitJoin(s, k, v) ==
    IF k = << >> THEN Interleave(s, v, 0) ELSE SplitJoinFrom(s, k, v, 0)

(***************************************************************************)
(* applyRules: one split/join pass per rule, in the order of the map, each *)
(* pass over the result of the previous one.                               *)
(***************************************************************************)
RECURSIVE applyRulesFrom(_, _, _)
applyRulesFrom(text, rules, i) ==
    IF i > Len(rules) THEN text
    ELSE applyRulesFrom(SplitJoin(text, rules[i].key, rules[i].val), rules, i + 1)

applyRules(text, rules) == applyRulesFrom(text, rules, 1)

\* rules.has(k) and rules.get(k); keys of a Map are unique
RulesHas(rules, k) == \E i \in 1..Len(rules) : rules[i].key = k
RulesGet(rules, k) == rules[CHOOSE i \in 1..Len(rules) : rules[i].key = k].val

\* `if (replacement)`: rules.get(k) is neither undefined nor the empty string
Truthy(rules, k) == RulesHas(rules, k) /\ RulesGet(rules, k) # << >>

----------------------------------------------------------------------------
(***************************************************************************)
(* State.                                                                  *)
(***************************************************************************)
VARIABLES
    text,                \* text[d]: the content of document d
    undoStack,           \* undoStack[d]: the texts the undo steps of d restore
    undoOpen,            \* undoOpen[d]: the next edit without an undo stop
                         \*   before it joins the last undo step
    activeEditor,        \* the document of vscode.window.activeTextEditor
    config,              \* configuration section tlcsdm.fixcnchar
    activated,           \* activate() has run and deactivate() has not
    realtimeDisposable,  \* "undefined", "live" or "disposed"
    liveListeners,       \* subscriptions to onDidChangeTextDocument not disposed
    processingDocuments, \* the set of documents being processed
    timers,              \* callbacks given to setTimeout, in the order given
    inflight,            \* edits requested of the host and not yet answered
    steps,               \* steps taken from outside the extension so far
    lastStep             \* what the last step did and reported

vars == << text, undoStack, undoOpen, activeEditor, config,
           activated, realtimeDisposable, liveListeners, processingDocuments,
           timers, inflight, steps, lastStep >>

\* lastStep: the operation, its document, the range and the text it wrote or
\* tried to write, whether the host applied it, the message shown to the
\* user and the line written to the console; for a change event from
\* outside, its content changes.
NoMsg == "none"

StepEdit(op, doc, from, to, txt, edited, msg, log) ==
    [op |-> op, doc |-> doc, from |-> from, to |-> to, txt |-> txt,
     edited |-> edited, msg |-> msg, log |-> log, changes |-> << >>]

Step(op, doc, msg, log) == StepEdit(op, doc, 0, 0, << >>, FALSE, msg, log)

(***************************************************************************)
(* The host: documents, content changes and editor edits.                  *)
(***************************************************************************)
\* A content change replaces rangeLength characters at range.start (a
\* position of the text before the event) by its text.
Change(start, rangeLength, txt) ==
    [start |-> start, rangeLength |-> rangeLength, text |-> txt]

\* The text with the range [from, to) replaced; the host clamps a range to
\* the text (TextModel.validateRange).
ReplaceRange(t, from, to, txt) ==
    LET f == Min(from, Len(t))
        e == Min(to, Len(t))
    IN  Sub(t, 0, f) \o txt \o Sub(t, e, Len(t))

\* The text after all changes of an event; the changes of one event do not
\* overlap and are each given in positions of the text before the event, so
\* they are applied from the last position to the first.
RECURSIVE ApplyChanges(_, _)
ApplyChanges(t, changes) ==
    IF changes = {} THEN t
    ELSE LET c == CHOOSE x \in changes : \A y \in changes : y.start <= x.start
         IN  ApplyChanges(
                 ReplaceRange(t, c.start, c.start + c.rangeLength, c.text),
                 changes \ {c})

Range(f) == {f[i] : i \in DOMAIN f}

\* The undo stack after an edit of document d whose text was `before`.
PushUndo(d, before, undoStopBefore) ==
    IF undoStopBefore \/ ~undoOpen[d]
    THEN [undoStack EXCEPT ![d] = Append(@, before)]
    ELSE undoStack

----------------------------------------------------------------------------
(***************************************************************************)
(* Configuration.  enableRealtime is "unset" when the user has not set it. *)
(***************************************************************************)
Unset == "unset"

Config(enable, rules) == [enableRealtime |-> enable, rules |-> rules]

\* config.get<Record<string, string>>('rules', {}) as a Map
getRulesCached(cfg) == DefaultRules
getRules(cfg) == cfg.rules

\* config.get<boolean>('enableRealtime', true)
isRealtimeEnabledAlways(cfg) == TRUE
isRealtimeEnabledDefaultOff(cfg) == cfg.enableRealtime = "true"
isRealtimeEnabled(cfg) ==
    IF cfg.enableRealtime = Unset THEN TRUE ELSE cfg.enableRealtime = "true"

(***************************************************************************)
(* The listener given to onDidChangeTextDocument.  It reads and changes    *)
(* processingDocuments and the timers, and may ask the host for edits:     *)
(* st = [pd, timers, edits].                                               *)
(***************************************************************************)
\* processingDocuments.has(event.document)
GuardHasNever(pd, doc) == FALSE
GuardHasAny(pd, doc) == pd # {}
GuardHas(pd, doc) == doc \in pd

\* !editor || editor.document !== event.document, negated
IsActiveAny(doc) == TRUE
IsActive(doc) == activeEditor # NoEditor /\ activeEditor = doc

\* the same test in the callback of the timer
StillActive(doc) == activeEditor # NoEditor /\ activeEditor = doc

\* processingDocuments.delete(event.document) where the callback returns
\* early, in the then() callback, and in the catch block
ReleaseInactiveNone(pd, doc) == pd
ReleaseInactive(pd, doc) == pd \ {doc}
ReleaseOnlyOnSuccess(pd, doc, success) == IF success THEN pd \ {doc} ELSE pd
ReleaseThen(pd, doc, success) == pd \ {doc}
ReleaseCatch(pd, doc) == pd \ {doc}

\* The first change of the event that is a single character with a
\* replacement, 0 when there is none (the loop with its continue and break).
FirstMatchAnyLength(changes, rules) ==
    LET M == {i \in 1..Len(changes) : Truthy(rules, changes[i].text)}
    IN  IF M = {} THEN 0 ELSE CHOOSE i \in M : \A j \in M : i <= j
FirstMatch(changes, rules) ==
    LET M == {i \in 1..Len(changes) :
                 Len(changes[i].text) = 1 /\ Truthy(rules, changes[i].text)}
    IN  IF M = {} THEN 0 ELSE CHOOSE i \in M : \A j \in M : i <= j

\* What the callback given to setTimeout has captured: the document, the
\* start of the range, the replacement and the typed character.  seen is
\* not read by the program: it records, for the properties, the character
\* the document of the event holds at that start when the event is handled.
Timer(doc, pos, replacement, inputChar, seen) ==
    [doc |-> doc, pos |-> pos, replacement |-> replacement,
     inputChar |-> inputChar, seen |-> seen]

\* An edit asked of the host: what the callback has captured, and whether
\* the document has changed since the edit was asked for.
Edit(r) ==
    [doc |-> r.doc, pos |-> r.pos, replacement |-> r.replacement,
     inputChar |-> r.inputChar, seen |-> r.seen, stale |-> FALSE]

\* setTimeout(callback, 1): the callback runs in a later task
ScheduleSync(st, r) == [st EXCEPT !.edits = Append(@, Edit(r))]
Schedule(st, r) == [st EXCEPT !.timers = Append(@, r)]

\* docText is the text of event.document, the text after the change
onDidChangeTextDocument(st, doc, docText, changes) ==
    IF GuardHas(st.pd, doc) THEN st
    ELSE IF ~isRealtimeEnabled(config) THEN st
    ELSE IF ~IsActive(doc) THEN st
    ELSE LET rules == getRules(config)
             i     == FirstMatch(changes, rules)
         IN  IF i = 0 THEN st
             ELSE Schedule([st EXCEPT !.pd = @ \cup {doc}],
                           Timer(doc, changes[i].start,
                                 RulesGet(rules, changes[i].text),
                                 changes[i].text,
                                 CharAt(docText, changes[i].start)))

\* The host calls every live listener with the event.
RECURSIVE Dispatch(_, _, _, _, _)
Dispatch(n, st, doc, docText, changes) ==
    IF n = 0 THEN st
    ELSE Dispatch(n - 1, onDidChangeTextDocument(st, doc, docText, changes),
                  doc, docText, changes)

Fire(doc, docText, changes) ==
    Dispatch(liveListeners,
             [pd |-> processingDocuments, timers |-> timers, edits |-> << >>],
             doc, docText, changes)

\* An edit the host has not answered is refused when the document changes
\* in between (the version the edit was built against is checked).
Invalidate(d) ==
    [i \in DOMAIN inflight |->
        IF inflight[i].doc = d THEN [inflight[i] EXCEPT !.stale = TRUE]
        ELSE inflight[i]]

(***************************************************************************)
(* registerRealtimeListener, for the configuration cfg in force.           *)
(***************************************************************************)
registerRealtimeListenerNoDispose(cfg) ==
    IF ~isRealtimeEnabled(cfg)
    THEN [realtimeDisposable |-> realtimeDisposable, liveListeners |-> liveListeners]
    ELSE [realtimeDisposable |-> "live", liveListeners |-> liveListeners + 1]
registerRealtimeListener(cfg) ==
    LET live == IF realtimeDisposable = "live" THEN liveListeners - 1
                ELSE liveListeners
        disp == IF realtimeDisposable = "undefined" THEN "undefined"
                ELSE "disposed"
    IN  IF ~isRealtimeEnabled(cfg)
        THEN [realtimeDisposable |-> disp, liveListeners |-> live]
        ELSE [realtimeDisposable |-> "live", liveListeners |-> live + 1]

----------------------------------------------------------------------------
(***************************************************************************)
(* Initial state: activate() has returned.                                 *)
(***************************************************************************)
Init ==
    /\ text \in {[d \in Docs |-> IF d = "A" THEN t ELSE << >>] : t \in InitTexts}
    /\ undoStack = [d \in Docs |-> << >>]
    /\ undoOpen = [d \in Docs |-> FALSE]
    /\ activeEditor = "A"
    /\ config = Config(Unset, DefaultRules)
    /\ activated = TRUE
    /\ realtimeDisposable = (IF isRealtimeEnabled(config) THEN "live" ELSE "undefined")
    /\ liveListeners = (IF isRealtimeEnabled(config) THEN 1 ELSE 0)
    /\ processingDocuments = {}
    /\ timers = << >>
    /\ inflight = << >>
    /\ steps = 0
    /\ lastStep = Step("activate", NoEditor, NoMsg, NoMsg)

(***************************************************************************)
(* Change events from outside the extension: typing, deleting, an input    *)
(* method replacing a character, a paste, typing with two cursors, an      *)
(* insert by another program.                                              *)
(***************************************************************************)
\* typing a character at the end of the text or an ordinary character at its
\* start, deleting the last character, an input method replacing the last
\* character, pasting two characters, typing with a cursor at each end
UserEvents(t) ==
         {<<Change(Len(t), 0, <<c>>)>> : c \in TypedChars}
    \cup {<<Change(0, 0, <<c>>)>> : c \in {"a", CnComma}}
    \cup {<<Change(Len(t) - 1, 1, txt)>> : txt \in {x \in {<< >>, <<CnComma>>} : t # << >>}}
    \cup {<<Change(Len(t), 0, <<CnComma, CnPeriod>>)>>}
    \cup {<<Change(Len(t), 0, <<CnComma>>), Change(0, 0, <<CnComma>>)>> : x \in {y \in {1} : t # << >>}}

\* Document A is the one the user works in; document B only receives a
\* matching character at its end.
EventsOf(d) ==
    IF d = "A" THEN UserEvents(text[d])
    ELSE {<<Change(Len(text[d]), 0, <<CnComma>>)>>}

DocumentChange(d, changes) ==
    LET after == ApplyChanges(text[d], Range(changes))
        st    == Fire(d, after, changes)
    IN  /\ steps < MaxSteps
        /\ Len(after) <= MaxLen
        /\ text' = [text EXCEPT ![d] = after]
        /\ undoStack' = PushUndo(d, text[d], FALSE)
        /\ undoOpen' = [undoOpen EXCEPT ![d] = TRUE]
        /\ processingDocuments' = st.pd
        /\ timers' = st.timers
        /\ inflight' = Invalidate(d) \o st.edits
        /\ steps' = steps + 1
        /\ lastStep' = [StepEdit("change", d, changes[1].start,
                                  changes[1].start + changes[1].rangeLength,
                                  changes[1].text, TRUE, NoMsg, NoMsg)
                          EXCEPT !.changes = changes]
        /\ UNCHANGED << activeEditor, config, activated,
                        realtimeDisposable, liveListeners >>

\* Another editor, or none, becomes the active one.
FocusChange(a) ==
    /\ steps < MaxSteps
    /\ a # activeEditor
    /\ activeEditor' = a
    /\ steps' = steps + 1
    /\ lastStep' = Step("focus", a, NoMsg, NoMsg)
    /\ UNCHANGED << text, undoStack, undoOpen, config, activated,
                    realtimeDisposable, liveListeners, processingDocuments,
                    timers, inflight >>

(***************************************************************************)
(* The configuration changes; the host then calls the listener of          *)
(* onDidChangeConfiguration, which registers the real-time listener anew.  *)
(***************************************************************************)
ConfigurationChange(cfg) ==
    LET reg == registerRealtimeListener(cfg)
    IN  /\ steps < MaxSteps
        /\ cfg # config
        /\ config' = cfg
        /\ steps' = steps + 1
        /\ IF activated
           THEN /\ realtimeDisposable' = reg.realtimeDisposable
                /\ liveListeners' = reg.liveListeners
           ELSE UNCHANGED << realtimeDisposable, liveListeners >>
        /\ lastStep' = Step("config", NoEditor, NoMsg, NoMsg)
        /\ UNCHANGED << text, undoStack, undoOpen, activeEditor, activated,
                        processingDocuments, timers, inflight >>

\* deactivate(), and the host disposing context.subscriptions
Deactivate ==
    /\ activated
    /\ activated' = FALSE
    /\ realtimeDisposable' =
           (IF realtimeDisposable = "undefined" THEN "undefined" ELSE "disposed")
    /\ liveListeners' =
           (IF realtimeDisposable = "live" THEN liveListeners - 1 ELSE liveListeners)
    /\ lastStep' = Step("deactivate", NoEditor, NoMsg, NoMsg)
    /\ UNCHANGED << text, undoStack, undoOpen, activeEditor, config,
                    processingDocuments, timers, inflight, steps >>

----------------------------------------------------------------------------
(***************************************************************************)
(* The callback of setTimeout(..., 1).  Timers of equal delay run in the   *)
(* order they were set.                                                    *)
(***************************************************************************)
\* the editor is no longer the active one: the guard is released
TimerInactive ==
    /\ timers # << >>
    /\ LET r == Head(timers)
       IN  /\ ~StillActive(r.doc)
           /\ processingDocuments' = ReleaseInactive(processingDocuments, r.doc)
           /\ timers' = Tail(timers)
           /\ lastStep' = Step("timer-inactive", r.doc, NoMsg, NoMsg)
    /\ UNCHANGED << text, undoStack, undoOpen, activeEditor, config,
                    activated, realtimeDisposable, liveListeners, inflight,
                    steps >>

\* currentEditor.edit(...) is called and returns its promise
TimerEdit ==
    /\ timers # << >>
    /\ LET r == Head(timers)
       IN  /\ StillActive(r.doc)
           /\ inflight' = Append(inflight, Edit(r))
           /\ timers' = Tail(timers)
           /\ lastStep' = StepEdit("timer-edit", r.doc, r.pos, r.pos + 1,
                                    r.replacement, FALSE, NoMsg, NoMsg)
    /\ UNCHANGED << text, undoStack, undoOpen, activeEditor, config,
                    activated, realtimeDisposable, liveListeners,
                    processingDocuments, steps >>

\* currentEditor.edit(...) throws: the catch block
TimerThrow ==
    /\ timers # << >>
    /\ LET r == Head(timers)
       IN  /\ StillActive(r.doc)
           /\ processingDocuments' = ReleaseCatch(processingDocuments, r.doc)
           /\ timers' = Tail(timers)
           /\ lastStep' = Step("timer-throw", r.doc, NoMsg,
                               "Fix Chinese Characters: Error during replacement")
    /\ UNCHANGED << text, undoStack, undoOpen, activeEditor, config,
                    activated, realtimeDisposable, liveListeners, inflight,
                    steps >>

(***************************************************************************)
(* The host answers the oldest edit.                                       *)
(***************************************************************************)
\* { undoStopBefore: false, undoStopAfter: true }
LiveUndoStopBefore == FALSE
LiveUndoStopAfterNone == FALSE
LiveUndoStopAfter == TRUE

\* The edit is applied; the host sends the change event of the edit and
\* then resolves the promise with true.
EditApplied ==
    /\ inflight # << >>
    /\ LET r      == Head(inflight)
           d      == r.doc
           from   == Min(r.pos, Len(text[d]))
           to     == Min(r.pos + 1, Len(text[d]))
           after  == ReplaceRange(text[d], r.pos, r.pos + 1, r.replacement)
           st     == Fire(d, after, <<Change(from, to - from, r.replacement)>>)
       IN  /\ ~r.stale
           /\ Len(after) <= MaxLen
           /\ text' = [text EXCEPT ![d] = after]
           /\ undoStack' = PushUndo(d, text[d], LiveUndoStopBefore)
           /\ undoOpen' = [undoOpen EXCEPT ![d] = ~LiveUndoStopAfter]
           /\ processingDocuments' = ReleaseThen(st.pd, d, TRUE)
           /\ timers' = st.timers
           /\ inflight' = Tail(inflight) \o st.edits
           /\ lastStep' = StepEdit("edit-applied", d, from, to, r.replacement,
                                    TRUE, NoMsg, NoMsg)
    /\ UNCHANGED << activeEditor, config, activated, realtimeDisposable,
                    liveListeners, steps >>

\* The host refuses the edit: the promise resolves with false.
EditRefused ==
    /\ inflight # << >>
    /\ LET r == Head(inflight)
       IN  /\ processingDocuments' = ReleaseThen(processingDocuments, r.doc, FALSE)
           /\ inflight' = Tail(inflight)
           /\ lastStep' = StepEdit("edit-refused", r.doc, r.pos, r.pos + 1,
                                    r.replacement, FALSE, NoMsg,
                                    "Fix Chinese Characters: Edit failed")
    /\ UNCHANGED << text, undoStack, undoOpen, activeEditor, config,
                    activated, realtimeDisposable, liveListeners, timers,
                    steps >>

\* The promise of the edit is rejected: then() has no rejection handler.
EditRejected ==
    /\ inflight # << >>
    /\ LET r == Head(inflight)
       IN  /\ inflight' = Tail(inflight)
           /\ lastStep' = Step("edit-rejected", r.doc, NoMsg, NoMsg)
    /\ UNCHANGED << text, undoStack, undoOpen, activeEditor, config,
                    activated, realtimeDisposable, liveListeners,
                    processingDocuments, timers, steps >>

----------------------------------------------------------------------------
(***************************************************************************)
(* The manual commands.  editor.edit(...) with its default options makes   *)
(* an undo step of its own; ok tells whether the host applies the edit.    *)
(***************************************************************************)
WarnNoEditorSilent == "none"
WarnNoEditor      == "No active text editor"
InfoReplacedSel   == "Chinese punctuation replaced in selection"
InfoNoneSel       == "No Chinese punctuation found in selection"
InfoReplacedDoc   == "Chinese punctuation replaced in document"
InfoNoneDoc       == "No Chinese punctuation found in document"

NothingEdited ==
    UNCHANGED << text, undoStack, undoOpen, processingDocuments, timers, inflight >>

CommandEdit(d, from, to, txt, ok) ==
    IF ok
    THEN LET st == Fire(d, ReplaceRange(text[d], from, to, txt),
                        <<Change(from, to - from, txt)>>)
         IN  /\ text' = [text EXCEPT ![d] = ReplaceRange(text[d], from, to, txt)]
             /\ undoStack' = PushUndo(d, text[d], TRUE)
             /\ undoOpen' = [undoOpen EXCEPT ![d] = FALSE]
             /\ processingDocuments' = st.pd
             /\ timers' = st.timers
             /\ inflight' = Invalidate(d) \o st.edits
    ELSE NothingEdited

\* the body of replaceInDocument, run for the command op
DocumentRewrite(op, ok) ==
    IF activeEditor = NoEditor
    THEN /\ NothingEdited
         /\ lastStep' = Step(op, NoEditor, WarnNoEditor, NoMsg)
    ELSE LET d        == activeEditor
             rules    == getRules(config)
             t        == text[d]
             replaced == applyRules(t, rules)
         IN  IF t # replaced
             THEN /\ Len(replaced) <= MaxLen
                  /\ CommandEdit(d, 0, Len(t), replaced, ok)
                  /\ lastStep' = StepEdit(op, d, 0, Len(t), replaced, ok,
                                           InfoReplacedDoc, NoMsg)
             ELSE /\ NothingEdited
                  /\ lastStep' = Step(op, d, InfoNoneDoc, NoMsg)

replaceInDocument(ok) ==
    /\ activated
    /\ steps < MaxSteps
    /\ steps' = steps + 1
    /\ DocumentRewrite("replaceInDocument", ok)
    /\ UNCHANGED << activeEditor, config, activated, realtimeDisposable,
                    liveListeners >>

\* editor.document.getText(selection), the selection being [from, to)
SelectedTextAll(t, from, to) == t
SelectedText(t, from, to) == Sub(t, from, to)

\* selection.isEmpty
SelectionIsEmptyNever(from, to) == FALSE
SelectionIsEmpty(from, to) == from = to

\* the selection of the active editor is [from, to)
replaceInSelection(from, to, ok) ==
    /\ activated
    /\ steps < MaxSteps
    /\ steps' = steps + 1
    /\ IF activeEditor = NoEditor
       THEN /\ NothingEdited
            /\ lastStep' = Step("replaceInSelection", NoEditor, WarnNoEditor, NoMsg)
       ELSE LET d     == activeEditor
                rules == getRules(config)
            IN  /\ from <= to /\ to <= Len(text[d])
                /\ IF SelectionIsEmpty(from, to)
                   THEN DocumentRewrite("replaceInSelection", ok)
                   ELSE LET t        == SelectedText(text[d], from, to)
                            replaced == applyRules(t, rules)
                        IN  IF t # replaced
                            THEN /\ Len(text[d]) - Len(t) + Len(replaced) <= MaxLen
                                 /\ CommandEdit(d, from, to, replaced, ok)
                                 /\ lastStep' = StepEdit("replaceInSelection", d,
                                                         from, to, replaced, ok,
                                                         InfoReplacedSel, NoMsg)
                            ELSE /\ NothingEdited
                                 /\ lastStep' = StepEdit("replaceInSelection", d,
                                                         from, to, replaced, FALSE,
                                                         InfoNoneSel, NoMsg)
    /\ UNCHANGED << activeEditor, config, activated, realtimeDisposable,
                    liveListeners >>

----------------------------------------------------------------------------
\* the user edits one setting at a time
Configs ==
         {Config(e, config.rules) : e \in {"true", "false"}}
    \cup {Config(config.enableRealtime, r) : r \in RuleTables}

\* the selections tried: empty, the whole text, and proper parts of it
Selections(t) ==
    {<<from, to>> \in ({0, 1} \X {Len(t) - 1, Len(t)}) : from <= to} \cup {<<0, 0>>}

Next ==
    \/ \E d \in Docs : \E ev \in EventsOf(d) : DocumentChange(d, ev)
    \/ \E a \in Docs \cup {NoEditor} : FocusChange(a)
    \/ \E cfg \in Configs : ConfigurationChange(cfg)
    \/ TimerInactive
    \/ TimerEdit
    \/ TimerThrow
    \/ EditApplied
    \/ EditRefused
    \/ EditRejected
    \/ \E ok \in BOOLEAN : replaceInDocument(ok)
    \/ \E sel \in (IF activeEditor = NoEditor THEN {<<0, 0>>}
                   ELSE Selections(text[activeEditor])), ok \in BOOLEAN :
           replaceInSelection(sel[1], sel[2], ok)

Spec == Init /\ [][Next]_vars

----------------------------------------------------------------------------
(***************************************************************************)
(* The batch rewrite on its own: applyRules called on a text under a rule  *)
(* table, and called again on its result.  The text is that of document A, *)
(* the table that of the configuration.                                    *)
(***************************************************************************)
ShrinkRules    == << Rule(<<CnComma, CnPeriod>>, <<CnComma>>) >>
GrowRules      == << Rule(<<CnComma>>, <<"a", CnComma>>) >>
PairEraseRules == << Rule(<<CnComma, CnPeriod>>, << >>) >>
JoinRules      == << Rule(<<CnComma, CnPeriod>>, <<Comma>>), Rule(<<"a">>, << >>) >>
WordRules      == << Rule(<<"a">>, <<Comma, Comma>>), Rule(<<CnComma, CnPeriod>>, <<Period>>) >>

BatchTables ==
    RuleTables \cup {ShrinkRules, GrowRules, PairEraseRules, JoinRules, WordRules}

BatchChars == {CnComma, CnPeriod, "a"}

\* all texts of at most n characters
RECURSIVE TextsUpTo(_)
TextsUpTo(n) ==
    IF n = 0 THEN {<< >>}
    ELSE LET S == TextsUpTo(n - 1)
         IN  S \cup {Append(t, c) : t \in {x \in S : Len(x) = n - 1}, c \in BatchChars}

BatchInit ==
    /\ text \in {[d \in Docs |-> IF d = "A" THEN t ELSE << >>] : t \in TextsUpTo(MaxText)}
    /\ config \in {Config(Unset, r) : r \in BatchTables}
    /\ undoStack = [d \in Docs |-> << >>]
    /\ undoOpen = [d \in Docs |-> FALSE]
    /\ activeEditor = "A"
    /\ activated = TRUE
    /\ realtimeDisposable = "live"
    /\ liveListeners = 1
    /\ processingDocuments = {}
    /\ timers = << >>
    /\ inflight = << >>
    /\ steps = 0
    /\ lastStep = Step("activate", NoEditor, NoMsg, NoMsg)

\* replaced = applyRules(text, rules), the text becoming the result
ApplyRulesCall ==
    LET t        == text["A"]
        replaced == applyRules(t, getRules(config))
    IN  /\ steps < MaxRewrites
        /\ steps' = steps + 1
        /\ text' = [text EXCEPT !["A"] = replaced]
        /\ lastStep' = StepEdit("applyRules", "A", 0, Len(t), t, t # replaced,
                                 NoMsg, NoMsg)
        /\ UNCHANGED << undoStack, undoOpen, activeEditor, config, activated,
                        realtimeDisposable, liveListeners, processingDocuments,
                        timers, inflight >>

BatchNext == ApplyRulesCall

BatchSpec == BatchInit /\ [][BatchNext]_vars

----------------------------------------------------------------------------
(***************************************************************************)
(* The life of the listener: activation, changes of the configuration,     *)
(* deactivation, with the change events and corrections in between.        *)
(***************************************************************************)
LifecycleNext ==
    \/ \E cfg \in Configs : ConfigurationChange(cfg)
    \/ Deactivate
    \/ \E d \in Docs : \E ev \in EventsOf(d) : DocumentChange(d, ev)
    \/ TimerEdit
    \/ EditApplied

LifecycleSpec == Init /\ [][LifecycleNext]_vars

----------------------------------------------------------------------------
(***************************************************************************)
(* Properties.                                                             *)
(***************************************************************************)
\* the corrections of document d that are scheduled or with the host
PendingFor(d) ==
    Cardinality({i \in DOMAIN timers : timers[i].doc = d})
      + Cardinality({i \in DOMAIN inflight : inflight[i].doc = d})

Quiescent == timers = << >> /\ inflight = << >> /\ processingDocuments = {}

\* the step taken is a change event from outside whose first change types
\* the single character c into document d
Typed(d, c) ==
    /\ lastStep'.op = "change"
    /\ lastStep'.doc = d
    /\ lastStep'.txt = <<c>>

\* C1: live correction never mutates a character that has since changed:
\* when the buffer was edited between the detection and the apply step, so
\* that the text at the captured location is no longer the inserted
\* character, the apply step leaves the buffer with the newer text.
C1_StaleCorrectionDropped ==
    [][ (lastStep'.op = "edit-applied" /\ inflight # << >>) =>
            LET r == Head(inflight)
            IN  (r.seen = r.inputChar /\ CharAt(text[r.doc], r.pos) # r.inputChar)
                    => text'[r.doc] = text[r.doc] ]_vars

\* C2: the change event of the rewriter's own corrective edit starts no
\* second correction: the step that applies the edit schedules nothing and
\* leaves the document unguarded, whatever the rule table.
C2_NoReentrantCycle ==
    [][ lastStep'.op = "edit-applied" =>
            /\ timers' = timers
            /\ lastStep'.doc \notin processingDocuments' ]_vars

\* a corrective edit whose replacement is itself a source pattern of the
\* table in force has been applied to the focused document, the listener
\* live, and nothing was scheduled
C2_Witness ==
    /\ lastStep.op = "edit-applied"
    /\ lastStep.txt = <<CnPeriod>>
    /\ Truthy(config.rules, lastStep.txt)
    /\ activeEditor = lastStep.doc
    /\ config.enableRealtime # "false"
    /\ liveListeners = 1
    /\ timers = << >>

\* C3: a document is in the processing guard only while a correction of it
\* is scheduled or with the host: every outcome of the deferred apply step
\* has released it.
C3_GuardReleasedOnEveryOutcome ==
    \A d \in processingDocuments : PendingFor(d) > 0

\* C4: at most one correction is scheduled or being applied per document.
C4_AtMostOneInFlight ==
    \A d \in Docs : PendingFor(d) <= 1

\* a second matching keystroke has arrived in the focused document while the
\* correction of the first is still scheduled
C4_Witness ==
    /\ lastStep.op = "change"
    /\ lastStep.txt = <<CnPeriod>>
    /\ Truthy(config.rules, lastStep.txt)
    /\ activeEditor = lastStep.doc
    /\ config.enableRealtime # "false"
    /\ liveListeners = 1
    /\ PendingFor(lastStep.doc) = 1
    /\ timers # << >>
    /\ Head(timers).doc = lastStep.doc
    /\ Head(timers).inputChar = <<CnComma>>

\* C5: two matching keystrokes in immediate succession at offsets 3 and 4,
\* the second before the first correction is applied: once the first
\* correction has been applied and nothing more is pending, both characters
\* are replaced.
C5_BothCorrected ==
    ( /\ steps = 2
      /\ config = Config(Unset, DefaultRules)
      /\ activeEditor = "A"
      /\ lastStep.op = "edit-applied"
      /\ lastStep.doc = "A"
      /\ Quiescent
      /\ Len(text["A"]) = 5
      /\ Sub(text["A"], 0, 4) = Abc \o <<Comma>>
      /\ text["A"][5] \in {CnPeriod, Period} )
    => text["A"] = Abc \o <<Comma, Period>>

\* C6: a change event for a document that is not the one of the active
\* editor (or with no active editor) acquires no guard and schedules no
\* correction, and the rewriter requests an edit of the active editor's
\* document only.
C6_OnlyFocusedDocument ==
    [][ /\ (lastStep'.op = "change" /\ activeEditor # lastStep'.doc) =>
               /\ processingDocuments' = processingDocuments
               /\ timers' = timers
        /\ lastStep'.op = "timer-edit" => activeEditor = lastStep'.doc
        /\ \A i \in DOMAIN timers' :
               i > Len(timers) => timers'[i].doc = activeEditor ]_vars

\* a matching character has been inserted into a document that is not the
\* active one, the listener being live and the document unguarded, and
\* nothing was scheduled
C6_Witness ==
    /\ lastStep.op = "change"
    /\ lastStep.txt = <<CnComma>>
    /\ Truthy(config.rules, lastStep.txt)
    /\ activeEditor # lastStep.doc
    /\ config.enableRealtime # "false"
    /\ liveListeners = 1
    /\ CnComma \in Range(text[lastStep.doc])
    /\ Quiescent

\* C7: while enableRealtime is false no listener is live and no step
\* acquires the guard or schedules a correction, so a typed character
\* matching a rule stays in the buffer as typed; the document and
\* selection commands still replace the range by its rewritten text.
C7_RealtimeOff ==
    [][ (activated /\ config.enableRealtime = "false"
                   /\ config'.enableRealtime = "false") =>
            /\ liveListeners = 0
            /\ processingDocuments' \subseteq processingDocuments
            /\ Len(timers') <= Len(timers)
            /\ \A d \in Docs, c \in TypedChars :
                   Typed(d, c) => c \in Range(text'[d])
            /\ (lastStep'.op \in {"replaceInDocument", "replaceInSelection"}
                  /\ lastStep'.edited) =>
                   LET d    == lastStep'.doc
                       from == lastStep'.from
                       to   == lastStep'.to
                   IN  /\ text'[d] # text[d]
                       /\ text'[d] = Sub(text[d], 0, from)
                                       \o applyRules(Sub(text[d], from, to),
                                                     config.rules)
                                       \o Sub(text[d], to, Len(text[d])) ]_vars

\* with real-time replacement off, a character matching a rule was typed
\* into the focused document and stayed as typed, and the document command
\* has then replaced it
C7_Witness ==
    /\ config = Config("false", DefaultRules)
    /\ steps = 3
    /\ lastStep.op = "replaceInDocument"
    /\ lastStep.edited
    /\ lastStep.doc = "A"
    /\ activeEditor = "A"
    /\ text["A"] = Abc \o <<Comma>>
    /\ undoStack["A"] = <<Abc, Abc \o <<CnComma>> >>

\* C8: the rule table used for a change event is the configuration's table
\* at the time of the event: a correction scheduled by a step carries the
\* replacement that the table in force gives for the typed character.
C8_RulesFreshPerEvent ==
    [][ \A i \in DOMAIN timers' :
            i > Len(timers) =>
                /\ Truthy(config'.rules, timers'[i].inputChar)
                /\ timers'[i].replacement
                       = RulesGet(config'.rules, timers'[i].inputChar) ]_vars

\* after the rule table was changed, a keystroke has been matched against
\* the new table
C8_Witness ==
    /\ lastStep.op = "change"
    /\ lastStep.txt = <<CnComma>>
    /\ config.rules = ChainRules
    /\ timers # << >>
    /\ timers[Len(timers)].inputChar = <<CnComma>>
    /\ timers[Len(timers)].replacement = <<CnPeriod>>

\* C9: typing the full-width comma at offset 5 of "hello" under the rule
\* (full-width comma -> ",") gives "hello," with one undo step, restoring
\* "hello", for keystroke and fix; the applied corrective edit joins the
\* open undo step and closes it, so that the next change starts a new one.
C9_OneUndoStep ==
    [][ /\ lastStep'.op = "edit-applied" =>
               LET d == lastStep'.doc
               IN  /\ undoOpen[d] => undoStack'[d] = undoStack[d]
                   /\ ~undoOpen'[d]
        /\ (lastStep'.op = "edit-applied" /\ steps' = 1
              /\ lastStep'.txt = <<Comma>> /\ lastStep'.from = 5
              /\ text[lastStep'.doc] = Hello \o <<CnComma>>) =>
               /\ text'[lastStep'.doc] = Hello \o <<Comma>>
               /\ undoStack'[lastStep'.doc] = <<Hello>>
        /\ (lastStep.op = "edit-applied" /\ lastStep'.op = "change"
              /\ lastStep'.doc = lastStep.doc) =>
               undoStack'[lastStep.doc]
                   = Append(undoStack[lastStep.doc], text[lastStep.doc]) ]_vars

\* "hello" has become "hello," by the keystroke and its fix, in one undo step
C9_Witness ==
    /\ lastStep.op = "edit-applied"
    /\ steps = 1
    /\ config.rules = DefaultRules
    /\ text["A"] = Hello \o <<Comma>>
    /\ undoStack["A"] = <<Hello>>
    /\ ~undoOpen["A"]

\* C10: when the host refuses the corrective edit, the buffer and its undo
\* history are as before, the guard of the document is released, the
\* failure goes to the console and no message is shown; and a matching
\* keystroke in an unguarded focused document is scheduled for correction.
C10_RefusedEdit ==
    [][ /\ lastStep'.op = "edit-refused" =>
               /\ text' = text
               /\ undoStack' = undoStack
               /\ lastStep'.doc \notin processingDocuments'
               /\ lastStep'.msg = NoMsg
               /\ lastStep'.log = "Fix Chinese Characters: Edit failed"
        /\ \A d \in Docs, c \in TypedChars :
               ( /\ Typed(d, c)
                 /\ Truthy(config.rules, <<c>>)
                 /\ d \notin processingDocuments
                 /\ activeEditor = d
                 /\ config.enableRealtime # "false"
                 /\ liveListeners >= 1 ) =>
                   /\ d \in processingDocuments'
                   /\ Len(timers') = Len(timers) + 1 ]_vars

\* the host has refused a corrective edit: the typed character is still in
\* the buffer and the document is unguarded
C10_Witness ==
    /\ lastStep.op = "edit-refused"
    /\ lastStep.doc \notin processingDocuments
    /\ lastStep.doc = activeEditor
    /\ CharAt(text[lastStep.doc], lastStep.from) = <<CnComma>>
    /\ steps = 1

----------------------------------------------------------------------------
(***************************************************************************)
(* Properties of the batch rewrite.                                        *)
(***************************************************************************)
\* the rule of the table, in its order, whose source pattern occurs in s at
\* offset i; 0 when there is none
RuleAt(s, rules, i) ==
    LET M == {j \in 1..Len(rules) :
                 rules[j].key # << >> /\ StartsAt(s, rules[j].key, i)}
    IN  IF M = {} THEN 0 ELSE CHOOSE j \in M : \A k \in M : j <= k

\* every occurrence of a source pattern in the original text replaced by its
\* own replacement, the text a replacement introduces never looked at again
RECURSIVE ReplaceOnceFrom(_, _, _)
ReplaceOnceFrom(s, rules, i) ==
    IF i >= Len(s) THEN << >>
    ELSE LET j == RuleAt(s, rules, i)
         IN  IF j = 0 THEN <<s[i + 1]>> \o ReplaceOnceFrom(s, rules, i + 1)
             ELSE rules[j].val \o ReplaceOnceFrom(s, rules, i + Len(rules[j].key))

ReplaceOnce(s, rules) == ReplaceOnceFrom(s, rules, 0)

\* C11: the batch rewrite does not cascade: its result is the original text
\* with each occurrence of a source pattern replaced by its own replacement
\* only, text introduced by an earlier rule never rewritten by a later one.
C11_NoCascade ==
    [][ lastStep'.op = "applyRules" =>
            text'["A"] = ReplaceOnce(text["A"], getRules(config)) ]_vars

\* no replacement of the table is itself a source pattern of the table
NoReplacementIsKey(rules) ==
    \A i, j \in 1..Len(rules) : rules[i].val # rules[j].key

\* every source pattern is one character, and no replacement contains one
SingleCharKeysKept(rules) ==
    \A i, j \in 1..Len(rules) :
        /\ Len(rules[i].key) = 1
        /\ rules[i].key[1] \notin Range(rules[j].val)

\* C12 as stated: for a rule table in which no replacement is itself a
\* source pattern, the rewrite of an already rewritten text changes nothing.
C12_Idempotent ==
    [][ ( /\ lastStep.op = "applyRules"
          /\ lastStep'.op = "applyRules"
          /\ NoReplacementIsKey(getRules(config)) ) => text' = text ]_vars

\* C12 amended: for a rule table whose source patterns are single
\* characters none of which occurs in a replacement of the table, the
\* rewrite of an already rewritten text changes nothing.
C12_IdempotentSingleChar ==
    [][ ( /\ lastStep.op = "applyRules"
          /\ lastStep'.op = "applyRules"
          /\ SingleCharKeysKept(getRules(config)) ) => text' = text ]_vars

\* the text "(full-width comma) a (full-width period)" has been rewritten
\* under the default table, and the result rewritten again
C12_Witness ==
    /\ lastStep.op = "applyRules"
    /\ steps = 2
    /\ getRules(config) = DefaultRules
    /\ SingleCharKeysKept(getRules(config))
    /\ lastStep.txt = <<Comma, "a", Period>>
    /\ text["A"] = <<Comma, "a", Period>>

\* the source pattern k occurs in the text s
Occurs(k, s) == \E i \in 0..(Len(s) - Len(k)) : StartsAt(s, k, i)

\* the source pattern k overlaps the replacement text v: they have a
\* character in common
Overlaps(k, v) == Range(k) \cap Range(v) # {}

\* the source patterns of the table that overlap none of its replacements
CleanKeys(rules) ==
    {rules[j].key : j \in {x \in 1..Len(rules) :
                              \A i \in 1..Len(rules) :
                                  ~Overlaps(rules[x].key, rules[i].val)}}

NoEmptyReplacement(rules) == \A i \in 1..Len(rules) : rules[i].val # << >>

\* C13 as stated: the rewritten text contains no occurrence of a source
\* pattern that does not overlap any replacement text of the table.
C13_NoPatternLeft ==
    [][ lastStep'.op = "applyRules" =>
            \A k \in CleanKeys(getRules(config)) : ~Occurs(k, text'["A"]) ]_vars

\* C13 amended: when no replacement of the table is empty, the rewritten
\* text contains no occurrence of a source pattern that does not overlap
\* any replacement text of the table.
C13_NoPatternLeftNonEmpty ==
    [][ (lastStep'.op = "applyRules" /\ NoEmptyReplacement(getRules(config))) =>
            \A k \in CleanKeys(getRules(config)) : ~Occurs(k, text'["A"]) ]_vars

\* a text holding both source patterns of a table without empty
\* replacements, neither overlapping a replacement, has been rewritten
C13_Witness ==
    /\ lastStep.op = "applyRules"
    /\ getRules(config) = WordRules
    /\ NoEmptyReplacement(getRules(config))
    /\ CleanKeys(getRules(config)) = {<<"a">>, <<CnComma, CnPeriod>>}
    /\ lastStep.txt = <<CnComma, CnPeriod, "a">>
    /\ text["A"] = <<Period, Comma, Comma>>

\* the source patterns of the table are pairwise disjoint: no two of them
\* have a character in common
DisjointKeys(rules) ==
    \A i, j \in 1..Len(rules) :
        i # j => Range(rules[i].key) \cap Range(rules[j].key) = {}

\* the rules of the table in every order
Orders(rules) ==
    {[i \in 1..Len(rules) |-> rules[p[i]]] :
        p \in {q \in [1..Len(rules) -> 1..Len(rules)] :
                  \A i, j \in 1..Len(rules) : i # j => q[i] # q[j]}}

\* C14: for a rule table with pairwise disjoint source patterns, the result
\* of the batch rewrite is the same for every order of the rules.
C14_OrderIndependent ==
    [][ (lastStep'.op = "applyRules" /\ DisjointKeys(getRules(config))) =>
            \A r \in Orders(getRules(config)) :
                applyRules(text["A"], r) = text'["A"] ]_vars

----------------------------------------------------------------------------
(***************************************************************************)
(* Properties of the commands and of the listener, continued.              *)
(***************************************************************************)
\* the step taken is the selection command run with a non-empty selection
SelectionCommand ==
    /\ lastStep'.op = "replaceInSelection"
    /\ lastStep'.msg \in {InfoReplacedSel, InfoNoneSel}

C16_ReportsWhetherChanged ==
    [][ (lastStep'.op \in {"replaceInSelection", "replaceInDocument"}
           /\ activeEditor # NoEditor) =>
            /\ lastStep'.msg \in {InfoReplacedSel, InfoReplacedDoc}
                   <=> text' # text
            /\ lastStep'.msg \in {InfoNoneSel, InfoNoneDoc}
                   <=> (text' = text /\ ~lastStep'.edited)
            /\ lastStep'.log = NoMsg ]_vars

\* C17: with no user configuration real-time replacement is enabled and
\* the rule table maps the full-width comma to "," and the full-width
\* period to ".": the listener is live after activation, and a matching
\* keystroke typed in the focused document as the first step is scheduled
\* and corrected to its half-width character.
C17_Defaults ==
    [][ /\ steps = 0 =>
               /\ config.enableRealtime = Unset
               /\ liveListeners = 1
               /\ realtimeDisposable = "live"
               /\ getRules(config) = DefaultRules
        /\ \A c \in {CnComma, CnPeriod} :
               (steps = 0 /\ Typed(activeEditor, c)) =>
                   /\ Len(timers') = 1
                   /\ timers'[1].doc = activeEditor
                   /\ timers'[1].pos = lastStep'.from
                   /\ timers'[1].replacement
                          = (IF c = CnComma THEN <<Comma>> ELSE <<Period>>)
        /\ (steps' = 1 /\ lastStep'.op = "edit-applied"
              /\ Head(inflight).seen = Head(inflight).inputChar) =>
               LET d == lastStep'.doc
                   p == lastStep'.from
               IN  \/ CharAt(text[d], p) = <<CnComma>>
                        /\ CharAt(text'[d], p) = <<Comma>>
                   \/ CharAt(text[d], p) = <<CnPeriod>>
                        /\ CharAt(text'[d], p) = <<Period>> ]_vars

\* the full-width period typed right after activation has been corrected
C17_Witness ==
    /\ steps = 1
    /\ config = Config(Unset, DefaultRules)
    /\ lastStep.op = "edit-applied"
    /\ text["A"] = Abc \o <<Period>>
    /\ Quiescent

\* C18: when the document of a scheduled correction is not the one of the
\* active editor (another editor or none is active) as the deferred step
\* runs, the correction is a no-op: no edit is requested or applied, no
\* error is written or shown, and the guard of the document is released.
C18_FocusLostNoOp ==
    [][ (Len(timers') < Len(timers) /\ activeEditor # Head(timers).doc) =>
            /\ text' = text
            /\ undoStack' = undoStack
            /\ inflight' = inflight
            /\ Head(timers).doc \notin processingDocuments'
            /\ lastStep'.msg = NoMsg
            /\ lastStep'.log = NoMsg ]_vars

\* the focus left document A after a matching keystroke was detected in
\* it, and the deferred step has run: the character is still as typed
C18_Witness ==
    /\ lastStep.op = "timer-inactive"
    /\ lastStep.doc = "A"
    /\ activeEditor # "A"
    /\ steps = 2
    /\ text["A"] = Abc \o <<CnComma>>
    /\ Quiescent

\* the content changes of the event that insert exactly one character for
\* which the table has a replacement
Matching(changes, rules) ==
    {i \in DOMAIN changes :
        Len(changes[i].text) = 1 /\ Truthy(rules, changes[i].text)}

\* the step taken is a change event from outside in the focused document,
\* unguarded, with the listener live
Handled ==
    /\ lastStep'.op = "change"
    /\ lastStep'.doc = activeEditor
    /\ lastStep'.doc \notin processingDocuments
    /\ config.enableRealtime # "false"
    /\ liveListeners = 1

\* C19: for an event carrying several content changes, every change whose
\* inserted text is one character matching a rule yields a correction,
\* not only the first match.
C19_EveryMatchCorrected ==
    [][ Handled =>
            Len(timers') - Len(timers)
                = Cardinality(Matching(lastStep'.changes, config.rules)) ]_vars

\* C20: a content change whose inserted text is not exactly one character
\* (a deletion, a paste of several characters, also when it holds source
\* patterns or equals a rule's source pattern of several characters)
\* schedules no correction and acquires no guard; a change of exactly one
\* matching character is scheduled both as a pure insertion and as the
\* replacement of an existing range.
C20_SingleCharacterOnly ==
    [][ /\ ( /\ lastStep'.op = "change"
              /\ \A i \in DOMAIN lastStep'.changes :
                     Len(lastStep'.changes[i].text) # 1 ) =>
               /\ timers' = timers
               /\ processingDocuments' = processingDocuments
        /\ ( /\ lastStep'.op \in {"replaceInSelection", "replaceInDocument"}
              /\ lastStep'.edited
              /\ Len(lastStep'.txt) # 1 ) =>
               /\ timers' = timers
               /\ processingDocuments' = processingDocuments
        /\ \A n \in {0, 1} :
               ( /\ Handled
                 /\ Len(lastStep'.changes) = 1
                 /\ lastStep'.changes[1].rangeLength = n
                 /\ Len(lastStep'.changes[1].text) = 1
                 /\ Truthy(config.rules, lastStep'.changes[1].text) ) =>
                   /\ Len(timers') = Len(timers) + 1
                   /\ lastStep'.doc \in processingDocuments' ]_vars

\* the two characters that are the source pattern of the table in force
\* have been pasted into the focused document, the listener live and the
\* document unguarded, and nothing was scheduled
C20_Witness ==
    /\ lastStep.op = "change"
    /\ lastStep.txt = <<CnComma, CnPeriod>>
    /\ config.rules = PairRules
    /\ Truthy(config.rules, lastStep.txt)
    /\ lastStep.doc = activeEditor
    /\ config.enableRealtime # "false"
    /\ liveListeners = 1
    /\ Quiescent

\* C21: the corrective edit is never asked of the host during the handling
\* of the change event that triggered it: the step of the event leaves the
\* buffer with the text of the event, records the correction and acquires
\* the guard, and an edit is asked for only by the later step of the timer.
C21_EditDeferred ==
    [][ /\ Len(inflight') > Len(inflight) => lastStep'.op = "timer-edit"
        /\ ( /\ Handled
              /\ Matching(lastStep'.changes, config.rules) # {} ) =>
               /\ text'[lastStep'.doc]
                      = ApplyChanges(text[lastStep'.doc], Range(lastStep'.changes))
               /\ Len(inflight') = Len(inflight)
               /\ Len(timers') = Len(timers) + 1
               /\ lastStep'.doc \in processingDocuments' ]_vars

\* a matching keystroke has been handled: its correction is recorded, the
\* document guarded, no edit asked for and the character still as typed
C21_Witness ==
    /\ lastStep.op = "change"
    /\ lastStep.txt = <<CnComma>>
    /\ steps = 1
    /\ Len(timers) = 1
    /\ inflight = << >>
    /\ processingDocuments = {"A"}
    /\ text["A"] = Abc \o <<CnComma>>

\* C22: with no active editor the selection and the document command show
\* the warning and do nothing else: no edit is asked for or applied, and
\* the buffers, their undo history, the guard set and the scheduled
\* corrections are unchanged.
C22_NoEditorNoOp ==
    [][ ( /\ lastStep'.op \in {"replaceInSelection", "replaceInDocument"}
          /\ activeEditor = NoEditor ) =>
            /\ lastStep'.msg = "No active text editor"
            /\ lastStep'.log = NoMsg
            /\ ~lastStep'.edited
            /\ text' = text
            /\ undoStack' = undoStack
            /\ processingDocuments' = processingDocuments
            /\ timers' = timers
            /\ inflight' = inflight ]_vars

\* the selection command has run with no editor active while document A
\* holds a source pattern
C22_Witness ==
    /\ lastStep.op = "replaceInSelection"
    /\ activeEditor = NoEditor
    /\ lastStep.msg = "No active text editor"
    /\ CnComma \in Range(text["A"])

\* the step taken is the selection command run with an empty selection:
\* not one that reports on a selection of at least one character
EmptySelectionCommand ==
    /\ lastStep'.op = "replaceInSelection"
    /\ activeEditor # NoEditor
    /\ ~( /\ lastStep'.msg \in {"Chinese punctuation replaced in selection",
                                "No Chinese punctuation found in selection"}
          /\ lastStep'.from < lastStep'.to )

\* C23: with an empty selection the selection command does what the
\* document command does: the whole text of the document is rewritten with
\* the rules, and the buffer and the message are those of the document
\* command.
C23_EmptySelectionIsDocument ==
    [][ EmptySelectionCommand =>
            LET d == activeEditor
                t == text[d]
                r == applyRules(t, config.rules)
            IN  IF t = r
                THEN /\ lastStep'.msg = "No Chinese punctuation found in document"
                     /\ text' = text
                     /\ ~lastStep'.edited
                ELSE /\ lastStep'.msg = "Chinese punctuation replaced in document"
                     /\ text' = IF lastStep'.edited THEN [text EXCEPT ![d] = r]
                                ELSE text ]_vars

\* the selection command, the selection empty, has rewritten the whole
\* document: both ends of the text held a source pattern
C23_Witness ==
    /\ lastStep.op = "replaceInSelection"
    /\ lastStep.msg = "Chinese punctuation replaced in document"
    /\ lastStep.edited
    /\ config.rules = DefaultRules
    /\ text["A"] = <<Comma>> \o Abc \o <<Comma>>

\* C24: at most one change listener is live; none is live while
\* enableRealtime is false or after deactivation, exactly one is live while
\* the extension is active with enableRealtime true (or unset), and a
\* change event schedules at most one correction.
C24_OneListener ==
    [][ /\ liveListeners' <= 1
        /\ (config'.enableRealtime = "false" \/ ~activated') => liveListeners' = 0
        /\ (config'.enableRealtime # "false" /\ activated') => liveListeners' = 1
        /\ lastStep'.op = "change" => Len(timers') <= Len(timers) + 1 ]_vars

\* the rule table was edited, the listener registered anew, and the
\* extension deactivated: a matching keystroke in the focused, unguarded
\* document is then handled by no listener
C24_Witness ==
    /\ ~activated
    /\ config = Config(Unset, ChainRules)
    /\ realtimeDisposable = "disposed"
    /\ liveListeners = 0
    /\ lastStep.op = "change"
    /\ lastStep.txt = <<CnComma>>
    /\ lastStep.doc = activeEditor
    /\ Quiescent

\* C25: an applied live correction changes exactly one character position
\* of the buffer, the one holding the character the triggering content
\* change inserted, and puts the rule's replacement there; every other
\* character and every other buffer is unchanged.
C25_ExactlyTheTypedCharacter ==
    [][ (lastStep'.op = "edit-applied" /\ inflight # << >>) =>
            LET r == Head(inflight)
                d == r.doc
                t == text[d]
            IN  /\ CharAt(t, r.pos) = r.inputChar
                /\ text'[d] = Sub(t, 0, r.pos) \o r.replacement
                                 \o Sub(t, r.pos + 1, Len(t))
                /\ \A e \in Docs \ {d} : text'[e] = text[e] ]_vars

\* C26: the live path and the batch path agree on a single character: for
\* a typed character that is a source pattern of the table in force, the
\* correction scheduled puts applyRules of that character in its place,
\* also when the replacement is empty or is a source pattern of another
\* rule.
C26_LiveAgreesWithBatch ==
    [][ ( /\ Handled
          /\ Len(lastStep'.changes) = 1
          /\ Len(lastStep'.txt) = 1
          /\ RulesHas(config.rules, lastStep'.txt) ) =>
            /\ Len(timers') = Len(timers) + 1
            /\ timers'[Len(timers')].replacement
                   = applyRules(lastStep'.txt, config.rules) ]_vars

\* the steps that end a correction of a document, and that document
Completes(d) ==
    /\ lastStep'.op \in {"timer-inactive", "timer-throw", "edit-applied",
                          "edit-refused"}
    /\ lastStep'.doc = d

\* C27: the guard is kept per document: while a correction of one document
\* is pending, a matching keystroke in another document that has become
\* the active one is scheduled for correction and that document guarded as
\* well, and the end of a correction releases the entry of its own
\* document only.
C27_GuardPerDocument ==
    [][ /\ \A d \in Docs :
               ( /\ Handled
                 /\ lastStep'.doc = d
                 /\ processingDocuments # {}
                 /\ Matching(lastStep'.changes, config.rules) # {} ) =>
                   /\ processingDocuments' = processingDocuments \cup {d}
                   /\ Len(timers') = Len(timers) + 1
                   /\ timers'[Len(timers')].doc = d
        /\ \A d \in Docs :
               Completes(d) => processingDocuments' = processingDocuments \ {d} ]_vars

\* document B became the active one and a matching keystroke in it was
\* scheduled while a correction of document A was with the host; that
\* correction has now been applied: the entry of B is kept, its correction
\* still scheduled
C27_Witness ==
    /\ activeEditor = "B"
    /\ lastStep.op = "edit-applied"
    /\ lastStep.doc = "A"
    /\ processingDocuments = {"B"}
    /\ inflight = << >>
    /\ Len(timers) = 1
    /\ timers[1].doc = "B"

====
